---------------------------- MODULE Spec2Model ----------------------------
(***************************************************************************)
(* Onion: a thin routing layer over Go's net/http.                         *)
(*                                                                         *)
(* The repository holds two implementations of package onion:              *)
(*   - src/onion.go: handle registers one closure per pattern on the       *)
(*     http.ServeMux; the mux selects the closure, the closure checks the  *)
(*     method and extracts the parameters (extractParams);                 *)
(*   - src/unnamed/part_005: handle stores the route in a map keyed by     *)
(*     (method, pattern); Run registers one "/" closure on the mux that    *)
(*     calls dispatch, which scans the map with matchWithParams.           *)
(* Both are modelled; the variable `variant` says which one is built.      *)
(*                                                                         *)
(* Go strings are sequences of one-character strings, so that Split,       *)
(* HasPrefix and TrimPrefix are computed, not assumed.                     *)
(***************************************************************************)
EXTENDS Naturals, Sequences, FiniteSets, Bags, TLC

\* ------------------------------------------------------------------------
\* Bounds
\* ------------------------------------------------------------------------

\* Longest pattern / path drawn for the pure matcher functions.
MaxStrLen == 4

\* Alphabet of the strings drawn for the pure matcher functions.
Chars == {"/", ":", "a"}

\* ------------------------------------------------------------------------
\* Go strings
\* ------------------------------------------------------------------------

\* All strings over Chars of length at most n.
StringsUpTo(n) == UNION {[1..k -> Chars] : k \in 0..n}

\* Index of the first "/" in s, or 0 when there is none.
IndexSlash(s) ==
    IF \E i \in 1..Len(s) : s[i] = "/"
    THEN CHOOSE i \in 1..Len(s) : s[i] = "/" /\ \A j \in 1..(i-1) : s[j] # "/"
    ELSE 0

\* strings.Split(s, "/"): one more segment than there are slashes; the empty
\* string splits into one empty segment.
RECURSIVE Split(_)
Split(s) ==
    LET i == IndexSlash(s) IN
    IF i = 0 THEN <<s>>
    ELSE <<SubSeq(s, 1, i-1)>> \o Split(SubSeq(s, i+1, Len(s)))

\* strings.HasPrefix(s, ":")
HasPrefix(s) == Len(s) > 0 /\ s[1] = ":"

\* strings.TrimPrefix(s, ":")
TrimPrefix(s) == IF HasPrefix(s) THEN Tail(s) ELSE s

\* make(map[string]string)
EmptyMap == [k \in {} |-> <<>>]

\* m[k] = v on a Go map
MapSet(m, k, v) == [x \in (DOMAIN m) \cup {k} |-> IF x = k THEN v ELSE m[x]]

\* ------------------------------------------------------------------------
\* The matcher of src/unnamed/part_005
\* ------------------------------------------------------------------------

\* The loop of matchWithParams from index i (1-based) with the bindings so far.
RECURSIVE matchLoop(_, _, _, _)
matchLoop(pParts, pathParts, i, params) ==
    IF i > Len(pParts) THEN [params |-> params, ok |-> TRUE]
    ELSE LET pp == pParts[i]
             pa == pathParts[i]
         IN IF HasPrefix(pp)
            THEN matchLoop(pParts, pathParts, i+1, MapSet(params, TrimPrefix(pp), pa))
            ELSE IF pp # pa
                 THEN [params |-> EmptyMap, ok |-> FALSE]
                 ELSE matchLoop(pParts, pathParts, i+1, params)

\* A matcher whose loop stops one segment early.
matchWithParams_skipsLast(pattern, path) ==
    LET pParts == Split(pattern)
        pathParts == Split(path)
    IN IF Len(pParts) # Len(pathParts)
       THEN [params |-> EmptyMap, ok |-> FALSE]
       ELSE matchLoop(SubSeq(pParts, 1, Len(pParts) - 1), pathParts, 1, EmptyMap)

\* A matcher that keeps the sigil in the key.
RECURSIVE matchLoopSigil(_, _, _, _)
matchLoopSigil(pParts, pathParts, i, params) ==
    IF i > Len(pParts) THEN [params |-> params, ok |-> TRUE]
    ELSE IF HasPrefix(pParts[i])
         THEN matchLoopSigil(pParts, pathParts, i+1, MapSet(params, pParts[i], pathParts[i]))
         ELSE IF pParts[i] # pathParts[i]
              THEN [params |-> EmptyMap, ok |-> FALSE]
              ELSE matchLoopSigil(pParts, pathParts, i+1, params)

matchWithParams_keepsSigil(pattern, path) ==
    IF Len(Split(pattern)) # Len(Split(path))
    THEN [params |-> EmptyMap, ok |-> FALSE]
    ELSE matchLoopSigil(Split(pattern), Split(path), 1, EmptyMap)

matchWithParams(pattern, path) ==
    LET pParts == Split(pattern)
        pathParts == Split(path)
    IN IF Len(pParts) # Len(pathParts)
       THEN [params |-> EmptyMap, ok |-> FALSE]
       ELSE matchLoop(pParts, pathParts, 1, EmptyMap)

\* ------------------------------------------------------------------------
\* The parameter extraction of src/onion.go
\* ------------------------------------------------------------------------

RECURSIVE extractLoop(_, _, _, _)
extractLoop(patternParts, pathParts, i, params) ==
    IF ~(i <= Len(patternParts) /\ i <= Len(pathParts)) THEN params
    ELSE IF HasPrefix(patternParts[i])
         THEN extractLoop(patternParts, pathParts, i+1,
                          MapSet(params, TrimPrefix(patternParts[i]), pathParts[i]))
         ELSE extractLoop(patternParts, pathParts, i+1, params)

extractParams(pattern, path) ==
    extractLoop(Split(pattern), Split(path), 1, EmptyMap)

\* ------------------------------------------------------------------------
\* Inputs of the application model
\* ------------------------------------------------------------------------

\* At most this many handle calls are made on one App.
MaxRegs == 2

\* At most this many Use calls are made on one App.
MaxMiddlewares == 2

\* At most this many requests are served at the same time once Run was called.
MaxInflight == 2

sUsers      == <<"/","u","s","e","r","s">>
sUsersSlash == sUsers \o <<"/">>
sUsersId    == sUsers \o <<"/",":","i","d">>
sUsersNew   == sUsers \o <<"/","n","e","w">>
sUsers123   == sUsers \o <<"/","1","2","3">>
sUsers123Slash == sUsers123 \o <<"/">>
sMissing    == <<"/","m","i","s","s","i","n","g">>
sId         == <<"i","d">>
s123        == <<"1","2","3">>

\* Patterns passed to handle and paths requested. The paths are clean (no
\* repeated slash, no "." element), so the mux never redirects to a cleaned path.
PatternSet == {sUsers, sUsersSlash, sUsersId, sUsersNew}
PathSet == {sUsers, sUsersSlash, sUsers123, sUsersNew, sUsersId, sUsers123Slash, sMissing}
\* Methods passed to handle, and methods of the requests.
Methods == {"GET", "POST"}
ReqMethods == Methods \cup {"get"}

\* Route handlers: the closure passed to the n-th handle call is HandlerNames[n];
\* each answers c.String(http.StatusOK, <its own text>).
HandlerNames == <<"h1", "h2", "h3", "h4">>
Handlers == {HandlerNames[n] : n \in 1..Len(HandlerNames)}
\* The handler New installs, and the one the tests and examples install.
DefaultNotFound == "default404"
CustomNotFounds == {"custom404"}
\* A second custom handler, for an App whose not-found handler is set again.
OtherNotFounds == {"other404"}
\* The middleware of TestMiddleware (sets X-Test) and the Auth middleware of the
\* examples (answers 401 when the request carries no X-Auth header; the requests
\* of the model carry none).
Middlewares == {"mwHeader", "mwAuth"}

StatusOK == 200
StatusNotFound == 404
StatusUnauthorized == 401

\* ------------------------------------------------------------------------
\* The response sink: the calls made on http.ResponseWriter, in order
\* ------------------------------------------------------------------------

SetHeader(k) == [op |-> "Header.Set", arg |-> k]
WriteHeader(code) == [op |-> "WriteHeader", arg |-> code]
Write(data) == [op |-> "Write", arg |-> data]

\* Context.String
String(statusCode, msg) == <<WriteHeader(statusCode), Write(msg)>>

\* http.NotFound, which the default not-found handler and the mux itself call.
HttpNotFound == String(StatusNotFound, "404 page not found")

\* What a callable writes when invoked with a Context.
Effect(fn) ==
    CASE fn \in Handlers -> String(StatusOK, fn)
      [] fn = DefaultNotFound -> HttpNotFound
      [] fn \in CustomNotFounds \cup OtherNotFounds -> String(StatusNotFound, fn)
      [] fn = "mwHeader" -> <<SetHeader("X-Test")>>
      [] fn = "mwAuth" -> String(StatusUnauthorized, "Unauthorized!")

\* Context.Param
Param(params, key) == IF key \in DOMAIN params THEN params[key] ELSE <<>>

\* ------------------------------------------------------------------------
\* http.ServeMux as onion uses it (patterns and paths that start with "/";
\* no host patterns, no wildcards of the mux's own)
\* ------------------------------------------------------------------------

IsPrefixOf(p, s) == Len(p) <= Len(s) /\ SubSeq(s, 1, Len(p)) = p

EndsInSlash(s) == Len(s) > 0 /\ s[Len(s)] = "/"

\* The registered pattern the mux selects for a path: the exact pattern if
\* registered, else the longest registered pattern that ends in "/" and is a
\* prefix of the path; <<>> when there is none.
muxMatch(m, path) ==
    LET subtree == {p \in DOMAIN m : EndsInSlash(p) /\ IsPrefixOf(p, path)}
    IN IF path \in DOMAIN m THEN path
       ELSE IF subtree = {} THEN <<>>
       ELSE CHOOSE p \in subtree : \A q \in subtree : Len(q) <= Len(p)

\* ServeMux.Handler for a clean path: a redirect to path + "/" when only that
\* is registered, the closure registered for the selected pattern, or the
\* mux's own NotFound.
muxHandler(m, path) ==
    IF path \notin DOMAIN m /\ ~EndsInSlash(path) /\ (path \o <<"/">>) \in DOMAIN m
    THEN [kind |-> "redirect"]
    ELSE IF muxMatch(m, path) = <<>> THEN [kind |-> "mux404"]
    ELSE m[muxMatch(m, path)]

\* ------------------------------------------------------------------------
\* The application
\* ------------------------------------------------------------------------

VARIABLES
    variant,      \* "onion.go" or "part_005": which implementation is built
    mux,          \* App.mux: registered pattern -> closure
    routes,       \* App.routes (part_005): routeKey -> handler
    middlewares,  \* App.middlewares
    notFound,     \* App.notFound
    nRegs,        \* handle calls made so far
    running,      \* Run was called: the mux is being served by net/http
    panicked,     \* a registration panicked: the process is gone
    reqs,         \* the requests being served: a bag of requests
    mPattern, mPath, mOut,  \* the pure functions' inputs and output
    rg            \* the RouteGroup being built (part_005)

vars == <<variant, mux, routes, middlewares, notFound, nRegs, running, panicked,
          reqs, mPattern, mPath, mOut, rg>>
appvars == <<variant, mux, routes, middlewares, notFound, nRegs, running, panicked, reqs>>
config == <<variant, mux, routes, middlewares, notFound, nRegs, running, panicked>>
mvars == <<mPattern, mPath, mOut, rg>>

Variants == {"onion.go", "part_005"}

\* No RouteGroup was built yet.
NoGroup == [built |-> FALSE, prefix |-> <<>>, routes |-> <<>>]

routeKey(method, pattern) == [method |-> method, pattern |-> pattern]

\* New()
New ==
    /\ mux = EmptyMap
    /\ routes = EmptyMap
    /\ middlewares = <<>>
    /\ notFound = DefaultNotFound
    /\ nRegs = 0
    /\ running = FALSE
    /\ panicked = FALSE
    /\ reqs = EmptyBag

Init ==
    /\ variant \in Variants
    /\ New
    /\ mPattern = <<>> /\ mPath = <<>> /\ mOut = [fn |-> "none"]
    /\ rg = NoGroup

Idle == reqs = EmptyBag

\* The requests being served.
InFlight == BagToSet(reqs)

\* One request of the bag moves on from r to q.
Step(r, q) == (reqs (-) SetToBag({r})) (+) SetToBag({q})

\* Configuration is done by the goroutine that built the App, before it calls
\* Run (which never returns) and between the requests it serves itself.
Configuring == ~running /\ ~panicked /\ Idle

\* App.Use
Use(mw) ==
    /\ Configuring
    /\ Len(middlewares) < MaxMiddlewares
    /\ middlewares' = Append(middlewares, mw)
    /\ UNCHANGED <<variant, mux, routes, notFound, nRegs, running, panicked, reqs, mvars>>

\* App.NotFoundHandler
NotFoundHandler(fn) ==
    /\ Configuring
    /\ notFound' = fn
    /\ UNCHANGED <<variant, mux, routes, middlewares, nRegs, running, panicked, reqs, mvars>>

\* App.handle of src/onion.go: mux.HandleFunc(pattern, closure); the mux panics
\* on a pattern that is already registered.
handleMux(method, pattern, handler) ==
    IF pattern \in DOMAIN mux
    THEN /\ panicked' = TRUE
         /\ UNCHANGED <<mux, routes>>
    ELSE /\ mux' = MapSet(mux, pattern, [kind |-> "route", method |-> method,
                                          pattern |-> pattern, handler |-> handler])
         /\ UNCHANGED <<routes, panicked>>

\* App.handle of src/unnamed/part_005: a.routes[routeKey{method, pattern}] = handler
handleTable(method, pattern, handler) ==
    /\ routes' = MapSet(routes, routeKey(method, pattern), handler)
    /\ UNCHANGED <<mux, panicked>>

handle(method, pattern, handler) ==
    /\ Configuring
    /\ nRegs < MaxRegs
    /\ handler = HandlerNames[nRegs + 1]
    /\ nRegs' = nRegs + 1
    /\ IF variant = "onion.go"
       THEN handleMux(method, pattern, handler)
       ELSE handleTable(method, pattern, handler)
    /\ UNCHANGED <<variant, middlewares, notFound, running, reqs, mvars>>

\* App.Run: part_005 registers the one "/" closure that calls dispatch; then
\* http.ListenAndServe serves the mux, one goroutine per request.
Run ==
    /\ Configuring
    /\ running' = TRUE
    /\ mux' = IF variant = "part_005"
              THEN MapSet(mux, <<"/">>, [kind |-> "dispatch"])
              ELSE mux
    /\ UNCHANGED <<variant, routes, middlewares, notFound, nRegs, panicked, reqs, mvars>>

\* A request that ended without a Context of a matched route.
Ended(method, path, via, calls, resp) ==
    [pc |-> "done", method |-> method, path |-> path, via |-> via,
     route |-> routeKey("", <<>>), handler |-> "", params |-> EmptyMap,
     i |-> 0, calls |-> calls, resp |-> resp]

\* A request for which a route was selected: its Context carries params.
Matched(method, path, key, handler, params) ==
    [pc |-> "middlewares", method |-> method, path |-> path, via |-> "route",
     route |-> key, handler |-> handler, params |-> params,
     i |-> 1, calls |-> <<>>, resp |-> <<>>]

Call(fn, params) == [fn |-> fn, params |-> params]

\* A not-found path that runs the first middleware of the chain before the
\* not-found handler.
callNotFound_afterMiddleware(method, path) ==
    IF middlewares = <<>>
    THEN Ended(method, path, "notFound", <<Call(notFound, EmptyMap)>>, Effect(notFound))
    ELSE Ended(method, path, "notFound",
               <<Call(middlewares[1], EmptyMap), Call(notFound, EmptyMap)>>,
               Effect(middlewares[1]) \o Effect(notFound))

\* a.notFound(&Context{Response: w, Request: r})
callNotFound(method, path) ==
    Ended(method, path, "notFound", <<Call(notFound, EmptyMap)>>, Effect(notFound))

\* A closure that does not compare the request's method with the route's.
routeClosure_noMethodCheck(e, method, path) ==
    {Matched(method, path, routeKey(e.method, e.pattern), e.handler,
             extractParams(e.pattern, path))}

\* The closure handle of src/onion.go registers, up to the Context.
routeClosure(e, method, path) ==
    IF method # e.method
    THEN {callNotFound(method, path)}
    ELSE {Matched(method, path, routeKey(e.method, e.pattern), e.handler,
                  extractParams(e.pattern, path))}

\* The routes dispatch may select: it ranges over a Go map, whose iteration
\* order is not fixed, and takes the first key with the request's method
\* whose pattern matches.
Candidates(method, path) ==
    {key \in DOMAIN routes :
        key.method = method /\ matchWithParams(key.pattern, path).ok}

\* App.dispatch of src/unnamed/part_005, up to the Context.
dispatch(method, path) ==
    IF Candidates(method, path) = {}
    THEN {callNotFound(method, path)}
    ELSE {Matched(method, path, key, routes[key],
                  matchWithParams(key.pattern, path).params) :
            key \in Candidates(method, path)}

\* mux.ServeHTTP up to the point where the middlewares start.
ServeHTTP(method, path) ==
    LET h == muxHandler(mux, path) IN
    CASE h.kind = "redirect" ->
            {Ended(method, path, "redirect", <<>>, <<SetHeader("Location"), WriteHeader(301)>>)}
      [] h.kind = "mux404" -> {Ended(method, path, "mux404", <<>>, HttpNotFound)}
      [] h.kind = "route" -> routeClosure(h, method, path)
      [] h.kind = "dispatch" -> dispatch(method, path)

\* A request arrives: from the configuring goroutine itself before Run (one at
\* a time, as the tests do), from the network after Run.
Serve(method, path) ==
    /\ ~panicked
    /\ IF running THEN BagCardinality(reqs) < MaxInflight ELSE Idle
    /\ \E r \in ServeHTTP(method, path) : reqs' = reqs (+) SetToBag({r})
    /\ UNCHANGED <<config, mvars>>

\* A chain that stops, handler included, once a middleware has written a status.
RunMiddleware_shortCircuits(r) ==
    /\ r \in InFlight
    /\ r.pc = "middlewares"
    /\ r.i <= Len(middlewares)
    /\ LET mw == middlewares[r.i]
           wrote == \E k \in 1..Len(Effect(mw)) : Effect(mw)[k].op = "WriteHeader"
       IN reqs' = Step(r, [r EXCEPT !.pc = IF wrote THEN "done" ELSE r.pc,
                                    !.i = r.i + 1,
                                    !.calls = Append(r.calls, Call(mw, r.params)),
                                    !.resp = r.resp \o Effect(mw)])
    /\ UNCHANGED <<config, mvars>>

\* A chain that is consumed as it runs: each middleware called is removed
\* from a.middlewares.
RunMiddleware_popsChain(r) ==
    /\ r \in InFlight
    /\ r.pc = "middlewares"
    /\ r.i <= Len(middlewares)
    /\ LET mw == middlewares[r.i]
       IN reqs' = Step(r, [r EXCEPT !.calls = Append(r.calls, Call(mw, r.params)),
                                    !.resp = r.resp \o Effect(mw)])
    /\ middlewares' = [k \in 1..(Len(middlewares) - 1) |->
                          IF k < r.i THEN middlewares[k] ELSE middlewares[k + 1]]
    /\ UNCHANGED <<variant, mux, routes, notFound, nRegs, running, panicked, mvars>>

\* for _, mw := range a.middlewares { mw(c) }
RunMiddleware(r) ==
    /\ r \in InFlight
    /\ r.pc = "middlewares"
    /\ r.i <= Len(middlewares)
    /\ LET mw == middlewares[r.i]
       IN reqs' = Step(r, [r EXCEPT !.i = r.i + 1,
                                    !.calls = Append(r.calls, Call(mw, r.params)),
                                    !.resp = r.resp \o Effect(mw)])
    /\ UNCHANGED <<config, mvars>>

\* A handler that is handed the bindings of whichever request is being served.
RunHandler_sharedBindings(r) ==
    /\ r \in InFlight
    /\ r.pc = "middlewares"
    /\ r.i > Len(middlewares)
    /\ \E q \in InFlight :
          reqs' = Step(r, [r EXCEPT !.pc = "done",
                                    !.calls = Append(r.calls, Call(r.handler, q.params)),
                                    !.resp = r.resp \o Effect(r.handler)])
    /\ UNCHANGED <<config, mvars>>

\* A dispatch that does not return after the handler: it goes on to the
\* not-found call at its end.
RunHandler_fallsThrough(r) ==
    /\ r \in InFlight
    /\ r.pc = "middlewares"
    /\ r.i > Len(middlewares)
    /\ reqs' = Step(r, [r EXCEPT !.pc = "done",
                                 !.calls = r.calls \o <<Call(r.handler, r.params),
                                                        Call(notFound, EmptyMap)>>,
                                 !.resp = r.resp \o Effect(r.handler) \o Effect(notFound)])
    /\ UNCHANGED <<config, mvars>>

\* handler(c)
RunHandler(r) ==
    /\ r \in InFlight
    /\ r.pc = "middlewares"
    /\ r.i > Len(middlewares)
    /\ reqs' = Step(r, [r EXCEPT !.pc = "done",
                                 !.calls = Append(r.calls, Call(r.handler, r.params)),
                                 !.resp = r.resp \o Effect(r.handler)])
    /\ UNCHANGED <<config, mvars>>

\* The response is complete and the request is forgotten.
Finish(r) ==
    /\ r \in InFlight
    /\ r.pc = "done"
    /\ reqs' = reqs (-) SetToBag({r})
    /\ UNCHANGED <<config, mvars>>

Next ==
    \/ \E mw \in Middlewares : Use(mw)
    \/ \E fn \in CustomNotFounds : NotFoundHandler(fn)
    \/ \E m \in Methods, p \in PatternSet, h \in Handlers : handle(m, p, h)
    \/ Run
    \/ \E m \in ReqMethods, p \in PathSet : Serve(m, p)
    \/ \E r \in InFlight : RunMiddleware(r)
    \/ \E r \in InFlight : RunHandler(r)
    \/ \E r \in InFlight : Finish(r)

Spec == Init /\ [][Next]_vars

\* ------------------------------------------------------------------------
\* RouteGroup (src/unnamed/part_005): routes built under a prefix, registered
\* with UseRoutes and served by dispatch
\* ------------------------------------------------------------------------

sBooks       == <<"b","o","o","k","s">>
sSlashId     == <<"/",":","i","d">>
s42          == <<"4","2">>
sBooksPath   == <<"/">> \o sBooks
sBooksSlash  == sBooksPath \o <<"/">>
sBooksId     == sBooksPath \o sSlashId
sBooks42     == sBooksSlash \o s42

\* Prefixes passed to NewGroup, sub-patterns passed to GET and POST, and the
\* (clean) paths requested of an App that serves a group.
PrefixSet == {sBooks, sBooks \o <<"/">>, <<>>}
SubPatternSet == {sSlashId, <<>>, <<"/">>}
GroupPathSet == {sBooks42, sBooksPath, sBooksSlash, <<"/">>}

\* A pattern joined the way path.Join would: one slash between prefix and
\* sub-pattern, repeated slashes collapsed into one, no slash at the end.
RECURSIVE collapse(_)
collapse(s) ==
    IF Len(s) < 2 THEN s
    ELSE IF s[1] = "/" /\ s[2] = "/" THEN collapse(Tail(s))
    ELSE <<s[1]>> \o collapse(Tail(s))

groupPattern_joined(prefix, pattern) ==
    LET c == collapse(<<"/">> \o prefix \o <<"/">> \o pattern)
    IN IF Len(c) > 1 /\ EndsInSlash(c) THEN SubSeq(c, 1, Len(c) - 1) ELSE c

\* "/" + rg.prefix + pattern
groupPattern(prefix, pattern) == <<"/">> \o prefix \o pattern

\* onion.Route
Route(method, pattern, handler) ==
    [Method |-> method, Pattern |-> pattern, Handler |-> handler]

\* NewGroup(prefix)
NewGroup(prefix) ==
    /\ ~rg.built
    /\ rg' = [built |-> TRUE, prefix |-> prefix, routes |-> <<>>]
    /\ UNCHANGED <<appvars, mPattern, mPath, mOut>>

\* rg.routes = append(rg.routes, Route{method, "/" + rg.prefix + pattern, handler})
appendRoute(method, pattern, handler) ==
    /\ rg.built
    /\ Len(rg.routes) < MaxRegs
    /\ handler = HandlerNames[Len(rg.routes) + 1]
    /\ rg' = [rg EXCEPT !.routes =
                 Append(rg.routes, Route(method, groupPattern(rg.prefix, pattern), handler))]
    /\ UNCHANGED <<appvars, mPattern, mPath, mOut>>

\* RouteGroup.GET
GET(pattern, handler) == appendRoute("GET", pattern, handler)

\* RouteGroup.POST
POST(pattern, handler) == appendRoute("POST", pattern, handler)

\* The table after a.handle(r.Method, r.Pattern, r.Handler) for each r of rs.
RECURSIVE useRoutesLoop(_, _)
useRoutesLoop(rs, table) ==
    IF rs = <<>> THEN table
    ELSE useRoutesLoop(Tail(rs),
            MapSet(table, routeKey(Head(rs).Method, Head(rs).Pattern), Head(rs).Handler))

\* app.UseRoutes(rg.Routes())
UseRoutes ==
    /\ Configuring
    /\ variant = "part_005"
    /\ rg.built
    /\ rg.routes # <<>>
    /\ nRegs + Len(rg.routes) <= MaxRegs
    /\ nRegs' = nRegs + Len(rg.routes)
    /\ routes' = useRoutesLoop(rg.routes, routes)
    /\ UNCHANGED <<variant, mux, middlewares, notFound, running, panicked, reqs, mvars>>

InitGroup ==
    /\ variant = "part_005"
    /\ New
    /\ mPattern = <<>> /\ mPath = <<>> /\ mOut = [fn |-> "none"]
    /\ rg = NoGroup

NextGroup ==
    \/ \E prefix \in PrefixSet : NewGroup(prefix)
    \/ \E p \in SubPatternSet, h \in Handlers : GET(p, h)
    \/ \E p \in SubPatternSet, h \in Handlers : POST(p, h)
    \/ UseRoutes
    \/ Run
    \/ \E m \in Methods, p \in GroupPathSet : Serve(m, p)
    \/ \E r \in InFlight : RunHandler(r)
    \/ \E r \in InFlight : Finish(r)

SpecGroup == InitGroup /\ [][NextGroup]_vars

\* ------------------------------------------------------------------------
\* An App whose not-found handler is set any number of times, before and
\* after its routes are registered (no middlewares)
\* ------------------------------------------------------------------------

NextNotFound ==
    \/ \E fn \in CustomNotFounds \cup OtherNotFounds : NotFoundHandler(fn)
    \/ \E m \in Methods, p \in PatternSet, h \in Handlers : handle(m, p, h)
    \/ Run
    \/ \E m \in ReqMethods, p \in PathSet : Serve(m, p)
    \/ \E r \in InFlight : RunHandler(r)
    \/ \E r \in InFlight : Finish(r)

SpecNotFound == Init /\ [][NextNotFound]_vars

\* ------------------------------------------------------------------------
\* The pure functions applied to every bounded pattern and path
\* ------------------------------------------------------------------------

InitMatch ==
    /\ variant = "part_005"
    /\ New
    /\ mPattern \in StringsUpTo(MaxStrLen)
    /\ mPath \in StringsUpTo(MaxStrLen)
    /\ mOut = [fn |-> "none"]
    /\ rg = NoGroup

CallMatch ==
    /\ mOut.fn = "none"
    /\ mOut' = [fn |-> "matchWithParams",
                params |-> matchWithParams(mPattern, mPath).params,
                ok |-> matchWithParams(mPattern, mPath).ok]
    /\ UNCHANGED <<mPattern, mPath, rg, appvars>>

CallExtract ==
    /\ mOut.fn = "none"
    /\ mOut' = [fn |-> "extractParams", params |-> extractParams(mPattern, mPath)]
    /\ UNCHANGED <<mPattern, mPath, rg, appvars>>

NextMatch == CallMatch \/ CallExtract

SpecMatch == InitMatch /\ [][NextMatch]_vars


\* ------------------------------------------------------------------------
\* Segments, stated independently of Split
\* ------------------------------------------------------------------------

SlashesOf(s) == {i \in 1..Len(s) : s[i] = "/"}

SegCount(s) == Cardinality(SlashesOf(s)) + 1

\* Position of the k-th slash of s; 0 for k = 0, Len(s) + 1 past the last one.
SlashPos(s, k) ==
    IF k = 0 THEN 0
    ELSE IF k > Cardinality(SlashesOf(s)) THEN Len(s) + 1
    ELSE CHOOSE i \in SlashesOf(s) : Cardinality({j \in SlashesOf(s) : j <= i}) = k

\* The k-th segment of s: what lies between the (k-1)-th and the k-th slash.
Seg(s, k) == SubSeq(s, SlashPos(s, k-1) + 1, SlashPos(s, k) - 1)

IsParamSeg(x) == x # <<>> /\ Head(x) = ":"

ParamName(x) == SubSeq(x, 2, Len(x))

\* Every literal segment of the pattern equals the path's segment there.
LiteralsAgree(pattern, path) ==
    \A k \in 1..SegCount(pattern) :
        ~IsParamSeg(Seg(pattern, k)) => Seg(pattern, k) = Seg(path, k)

\* The pattern matches the path: same number of segments, literals agree.
Matches(pattern, path) ==
    SegCount(pattern) = SegCount(path) /\ LiteralsAgree(pattern, path)

\* ------------------------------------------------------------------------
\* C1
\* ------------------------------------------------------------------------

\* C1: for a pattern and a path with the same number of segments,
\* matchWithParams reports a match if and only if every pattern segment that
\* does not start with ":" equals the path segment at its position; a segment
\* that starts with ":" accepts any value, the empty string included.
C1_MatchIffLiteralsAgree ==
    (mOut.fn = "matchWithParams" /\ SegCount(mPattern) = SegCount(mPath))
        => (mOut.ok <=> LiteralsAgree(mPattern, mPath))

\* A match with a literal segment, and a parameter bound to the empty string
\* in the last position.
C1_Witness ==
    /\ mOut.fn = "matchWithParams"
    /\ mOut.ok
    /\ SegCount(mPattern) = SegCount(mPath)
    /\ SegCount(mPattern) >= 2
    /\ Seg(mPattern, 1) # <<>> /\ ~IsParamSeg(Seg(mPattern, 1))
    /\ IsParamSeg(Seg(mPattern, SegCount(mPattern)))
    /\ Seg(mPath, SegCount(mPath)) = <<>>

\* ------------------------------------------------------------------------
\* C2
\* ------------------------------------------------------------------------

\* C2: a route is never selected for a path that has more or fewer segments
\* than the route's pattern (the matcher rejects every such pair).
C2_SelectedRouteHasSegCountOfPath ==
    \A r \in InFlight :
        r.via = "route" => SegCount(r.route.pattern) = SegCount(r.path)

\* ------------------------------------------------------------------------
\* C3
\* ------------------------------------------------------------------------

\* The positions of the pattern's parameter segments.
ParamPositions(pattern) ==
    {k \in 1..SegCount(pattern) : IsParamSeg(Seg(pattern, k))}

ParamNames(pattern) ==
    {ParamName(Seg(pattern, k)) : k \in ParamPositions(pattern)}

\* The mux of src/onion.go hands the path to the closure of this pattern.
MuxSelects(pattern, path) ==
    /\ pattern # <<>>
    /\ \/ pattern = path
       \/ EndsInSlash(pattern) /\ IsPrefixOf(pattern, path)

\* The bindings were produced for a path the pattern was matched with.
BindingsProduced ==
    \/ mOut.fn = "matchWithParams" /\ mOut.ok
    \/ mOut.fn = "extractParams" /\ MuxSelects(mPattern, mPath)

\* C3 as stated: the keys of the bindings are exactly the pattern's parameter
\* names, and each parameter segment's name is bound to the path segment at
\* that segment's position.
C3_EveryParamSegmentBound ==
    BindingsProduced =>
        /\ DOMAIN mOut.params = ParamNames(mPattern)
        /\ \A k \in ParamPositions(mPattern) :
              mOut.params[ParamName(Seg(mPattern, k))] = Seg(mPath, k)

\* C3 as amended: the keys of the bindings are exactly the pattern's parameter
\* names, and each key is bound to the path segment at the position of the
\* last parameter segment that bears this name.
C3_KeysExactLastSegmentWins ==
    BindingsProduced =>
        /\ DOMAIN mOut.params = ParamNames(mPattern)
        /\ \A key \in DOMAIN mOut.params :
              LET last == CHOOSE k \in ParamPositions(mPattern) :
                              /\ ParamName(Seg(mPattern, k)) = key
                              /\ \A j \in ParamPositions(mPattern) :
                                    ParamName(Seg(mPattern, j)) = key => j <= k
              IN mOut.params[key] = Seg(mPath, last)

\* A match of a pattern with two parameter segments of the same name, at
\* positions where the path's segments differ.
C3_Witness ==
    /\ mOut.fn = "matchWithParams" /\ mOut.ok
    /\ \E j, k \in ParamPositions(mPattern) :
          /\ j < k
          /\ ParamName(Seg(mPattern, j)) = ParamName(Seg(mPattern, k))
          /\ Seg(mPath, j) # Seg(mPath, k)
          /\ mOut.params[ParamName(Seg(mPattern, k))] = Seg(mPath, k)

\* ------------------------------------------------------------------------
\* What the claims about requests are stated in
\* ------------------------------------------------------------------------

\* The routes registered so far, whichever structure holds them.
RegisteredRoutes ==
    {[method |-> mux[p].method, pattern |-> p, handler |-> mux[p].handler] :
        p \in {q \in DOMAIN mux : mux[q].kind = "route"}}
    \cup {[method |-> k.method, pattern |-> k.pattern, handler |-> routes[k]] :
        k \in DOMAIN routes}

\* The registered routes a request (method, path) matches.
MatchingRoutes(method, path) ==
    {rt \in RegisteredRoutes : rt.method = method /\ Matches(rt.pattern, path)}

\* The requests whose response is complete.
Done == {r \in InFlight : r.pc = "done"}

\* The requests for which a route was selected.
Routed == {r \in InFlight : r.via = "route"}

Last(seq) == seq[Len(seq)]

\* The request ended in the configured not-found handler and in nothing else.
NotFoundOutcome(r) ==
    /\ r.via = "notFound"
    /\ r.calls = <<Call(notFound, EmptyMap)>>
    /\ r.resp = Effect(notFound)

\* ------------------------------------------------------------------------
\* C4
\* ------------------------------------------------------------------------

\* C4: once a route (M, P, h) is registered, a request with method M whose
\* path matches P (and no other registered route), served through the mux,
\* invokes h last, and the response ends with h's output; the route
\* GET /users/:id hands Param("id") = "123" to h for GET /users/123.
C4_RegisteredRouteReached ==
    \A r \in Done : \A rt \in MatchingRoutes(r.method, r.path) :
        MatchingRoutes(r.method, r.path) = {rt} =>
            /\ r.via = "route"
            /\ Last(r.calls).fn = rt.handler
            /\ SubSeq(r.resp, Len(r.resp) - 1, Len(r.resp)) = Effect(rt.handler)
            /\ (rt.pattern = sUsersId /\ r.path = sUsers123)
                   => Param(Last(r.calls).params, sId) = s123

\* ------------------------------------------------------------------------
\* C5
\* ------------------------------------------------------------------------

\* The calls the first n middlewares receive, each with the bindings of r.
MiddlewareCalls(r, n) == [k \in 1..n |-> Call(middlewares[k], r.params)]

RECURSIVE Effects(_)
Effects(calls) ==
    IF calls = <<>> THEN <<>> ELSE Effect(Head(calls).fn) \o Effects(Tail(calls))

C6_UnmatchedGetsConfiguredNotFound ==
    \A r \in Done :
        MatchingRoutes(r.method, r.path) = {} => r.resp = Effect(notFound)

\* ------------------------------------------------------------------------
\* C7
\* ------------------------------------------------------------------------

\* The router found the path under a registered pattern, but under no route
\* with the request's method: in src/onion.go the mux handed the request to
\* the closure of a route with another method; in part_005 dispatch ran and
\* the routes whose pattern matches the path all have another method.
MethodMismatch(r) ==
    IF variant = "onion.go"
    THEN /\ muxHandler(mux, r.path).kind = "route"
         /\ muxHandler(mux, r.path).method # r.method
    ELSE /\ running
         /\ \E rt \in RegisteredRoutes : Matches(rt.pattern, r.path)
         /\ MatchingRoutes(r.method, r.path) = {}

C8_SamePatternTwoMethods ==
    [][ /\ \A m \in Methods, p \in PatternSet, h \in Handlers :
              ( /\ handle(m, p, h)
                /\ \E rt \in RegisteredRoutes : rt.pattern = p /\ rt.method # m
                /\ ~ \E rt \in RegisteredRoutes : rt.pattern = p /\ rt.method = m )
              => /\ ~panicked'
                 /\ RegisteredRoutes' = RegisteredRoutes \cup
                        {[method |-> m, pattern |-> p, handler |-> h]}
        /\ \A r \in Routed' : r.route.method = r.method
      ]_vars

\* ------------------------------------------------------------------------
\* C9
\* ------------------------------------------------------------------------

\* C9: the registered routes hold at most one handler per (method, pattern);
\* registering a (method, pattern) that is present completes without a fault,
\* replaces the handler of that entry and leaves every other entry as it was.
C9_ReRegistrationOverwrites ==
    [][ /\ \A a, b \in RegisteredRoutes' :
              (a.method = b.method /\ a.pattern = b.pattern) => a = b
        /\ \A m \in Methods, p \in PatternSet, h \in Handlers :
              ( /\ handle(m, p, h)
                /\ \E rt \in RegisteredRoutes : rt.pattern = p /\ rt.method = m )
              => /\ ~panicked'
                 /\ RegisteredRoutes' =
                        {rt \in RegisteredRoutes : ~(rt.pattern = p /\ rt.method = m)}
                        \cup {[method |-> m, pattern |-> p, handler |-> h]}
      ]_vars

\* ------------------------------------------------------------------------
\* C10
\* ------------------------------------------------------------------------

\* C10: with the registrations fixed, two dispatches of the same (method,
\* path) select the same route.
C10_SameRequestSameRoute ==
    \A r, q \in Routed :
        (r.method = q.method /\ r.path = q.path) => r.route = q.route

\* ------------------------------------------------------------------------
\* C11
\* ------------------------------------------------------------------------

\* The route GET or POST appended to the group for this sub-pattern.
GroupAppends(sub, h) == GET(sub, h) \/ POST(sub, h)

\* C11: the route a prefix group appends for a sub-pattern has as pattern
\* "/", then the prefix, then the sub-pattern, character for character and
\* nothing else (NewGroup("books") yields /books/:id for "/:id", /books for
\* "" and /books/ for "/"); once the group's routes are registered and the
\* App is served, GET /books/42 ends in the handler given for /books/:id,
\* which finds id bound to "42".
C11_GroupPatternIsPlainConcatenation ==
    /\ [][ \A sub \in SubPatternSet, h \in Handlers : GroupAppends(sub, h) =>
              LET P == Last(rg'.routes).Pattern
                  n == Len(rg.prefix)
              IN /\ Len(rg'.routes) = Len(rg.routes) + 1
                 /\ \A k \in 1..Len(rg.routes) : rg'.routes[k] = rg.routes[k]
                 /\ Last(rg'.routes).Handler = h
                 /\ Len(P) = 1 + n + Len(sub)
                 /\ P[1] = "/"
                 /\ \A k \in 1..n : P[1 + k] = rg.prefix[k]
                 /\ \A k \in 1..Len(sub) : P[1 + n + k] = sub[k]
                 /\ rg.prefix = <<"b","o","o","k","s">> =>
                       /\ sub = <<"/",":","i","d">> =>
                             P = <<"/","b","o","o","k","s","/",":","i","d">>
                       /\ sub = <<>> => P = <<"/","b","o","o","k","s">>
                       /\ sub = <<"/">> => P = <<"/","b","o","o","k","s","/">>
       ]_vars
    /\ [](\A r \in Done :
             ( /\ running
               /\ r.method = "GET" /\ r.path = sBooks42
               /\ routeKey("GET", sBooksId) \in DOMAIN routes )
             => /\ r.via = "route"
                /\ r.calls = <<Call(routes[routeKey("GET", sBooksId)], r.params)>>
                /\ DOMAIN r.params = {sId}
                /\ Param(r.params, sId) = s42)

\* GET /books/42 was answered by the handler of /books/:id, with id = "42",
\* by an App that also serves the group's route for "" or "/".
C11_Witness ==
    \E r \in Done :
        /\ running
        /\ rg.prefix = sBooks
        /\ Len(rg.routes) = 2
        /\ \E k \in 1..2 : rg.routes[k].Pattern \in {sBooksPath, sBooksSlash}
        /\ \A k \in 1..2 : routeKey(rg.routes[k].Method, rg.routes[k].Pattern) \in DOMAIN routes
        /\ r.method = "GET" /\ r.path = sBooks42
        /\ r.via = "route"
        /\ r.route = routeKey("GET", sBooksId)
        /\ Last(r.calls).fn = routes[r.route]
        /\ Param(Last(r.calls).params, sId) = s42

\* ------------------------------------------------------------------------
\* C12
\* ------------------------------------------------------------------------

\* The last position at which the pattern has a parameter segment of this name.
LastPosition(pattern, key) ==
    CHOOSE k \in ParamPositions(pattern) :
        /\ ParamName(Seg(pattern, k)) = key
        /\ \A j \in ParamPositions(pattern) : ParamName(Seg(pattern, j)) = key => j <= k

\* The bindings a pattern extracts from one path, read off the segments.
OwnBindings(pattern, path) ==
    [key \in ParamNames(pattern) |-> Seg(path, LastPosition(pattern, key))]

\* C12: with registration finished and requests served in any order and any
\* interleaving, a request invokes no route handler but the one registered for
\* the route selected for it, and every call made for it (middlewares and
\* handler) is handed the bindings extracted from its own path, whatever
\* other requests are being served; a request for which no route was selected
\* invokes no route handler.
C12_RequestsIsolated ==
    \A r \in InFlight :
        IF r.via = "route"
        THEN /\ [method |-> r.route.method, pattern |-> r.route.pattern,
                 handler |-> r.handler] \in RegisteredRoutes
             /\ r.route.method = r.method
             /\ r.params = OwnBindings(r.route.pattern, r.path)
             /\ \A k \in 1..Len(r.calls) :
                   /\ r.calls[k].params = r.params
                   /\ r.calls[k].fn \in Handlers => r.calls[k].fn = r.handler
        ELSE \A k \in 1..Len(r.calls) : r.calls[k].fn \notin Handlers

\* Two requests served at the same time by the same route of a running App
\* that has two routes, with different bindings; one has had its handler
\* called while the other is still in its middlewares.
C12_Witness ==
    /\ running
    /\ Cardinality(RegisteredRoutes) = 2
    /\ \E r, q \in Routed :
          /\ r.route = q.route
          /\ r.params # q.params
          /\ r.pc = "done" /\ Last(r.calls) = Call(r.handler, r.params)
          /\ q.pc = "middlewares" /\ q.calls # <<>>

\* ------------------------------------------------------------------------
\* C13
\* ------------------------------------------------------------------------

\* C13: the configured not-found handler is the one passed to the most recent
\* NotFoundHandler call, whether routes were registered before it or not
\* (the default handler if there was no call), and the response to a request
\* that matches no registered route is what that handler writes, not what
\* the default or an earlier handler writes.
C13_LastNotFoundHandlerAnswers ==
    /\ [][ /\ \A fn \in CustomNotFounds \cup OtherNotFounds :
                 NotFoundHandler(fn) => notFound' = fn
           /\ (~ \E fn \in CustomNotFounds \cup OtherNotFounds : NotFoundHandler(fn))
                 => notFound' = notFound
         ]_vars
    /\ [](\A r \in Done :
             MatchingRoutes(r.method, r.path) = {} =>
                 /\ r.resp = Effect(notFound)
                 /\ \A k \in 1..Len(r.calls) : r.calls[k].fn = notFound)

\* ------------------------------------------------------------------------
\* C14
\* ------------------------------------------------------------------------

\* C14: a step of serving a request (its arrival and lookup, a middleware
\* call, the handler or not-found call, its end) leaves the registered
\* routes, the middleware chain and the configured not-found handler as they
\* were, and with them all that a lookup reads (a.mux, a.routes); the
\* registered routes change only in a registration (handle, which MapRoutes
\* and UseRoutes call per route), the chain only in Use, the not-found
\* handler only in NotFoundHandler.
C14_ServingLeavesConfigurationUnchanged ==
    [][ /\ reqs' # reqs =>
              /\ RegisteredRoutes' = RegisteredRoutes
              /\ middlewares' = middlewares
              /\ notFound' = notFound
              /\ mux' = mux /\ routes' = routes
        /\ RegisteredRoutes' # RegisteredRoutes =>
              \/ \E m \in Methods, p \in PatternSet, h \in Handlers : handle(m, p, h)
              \/ UseRoutes
        /\ middlewares' # middlewares => \E mw \in Middlewares : Use(mw)
        /\ notFound' # notFound => \E fn \in CustomNotFounds : NotFoundHandler(fn)
      ]_vars

\* A running App with a route, a middleware and a custom not-found handler
\* has answered one request through the route's handler and another through
\* the not-found handler.
C14_Witness ==
    /\ running
    /\ RegisteredRoutes # {}
    /\ middlewares # <<>>
    /\ notFound \in CustomNotFounds
    /\ \E r, q \in Done :
          /\ r.via = "route" /\ Last(r.calls).fn = r.handler
          /\ q.via = "notFound" /\ Last(q.calls).fn = notFound

\* ------------------------------------------------------------------------
\* C15
\* ------------------------------------------------------------------------

\* The request was handed to the router's own code: a route's closure
\* (src/onion.go) or dispatch (part_005).
Dispatched(r) == r.via \in {"route", "notFound"}

\* The positions in the calls of r at which a route handler or a not-found
\* handler was called.
TerminalCalls(r) ==
    {k \in 1..Len(r.calls) :
        r.calls[k].fn \in Handlers \cup {DefaultNotFound} \cup CustomNotFounds \cup OtherNotFounds}

\* C15: a dispatched request, once answered, has had exactly one terminal
\* handler called, exactly once and as its last call: either the handler
\* registered for the one route selected for it (in part_005 one of the routes
\* that match it, in src/onion.go the route whose pattern the mux selected) or
\* the configured not-found handler; until then none was called.
C15_ExactlyOneTerminalHandler ==
    \A r \in InFlight : Dispatched(r) =>
        IF r.pc = "done"
        THEN /\ TerminalCalls(r) = {Len(r.calls)}
             /\ IF r.via = "route"
                THEN /\ Last(r.calls).fn = r.handler
                     /\ [method |-> r.route.method, pattern |-> r.route.pattern,
                         handler |-> r.handler] \in RegisteredRoutes
                     /\ IF variant = "part_005"
                        THEN r.route \in {routeKey(rt.method, rt.pattern) :
                                             rt \in MatchingRoutes(r.method, r.path)}
                        ELSE MuxSelects(r.route.pattern, r.path)
                ELSE Last(r.calls).fn = notFound
        ELSE TerminalCalls(r) = {}

\* A request that two registered routes match was answered by the handler of
\* one of them, after a middleware.
C15_Witness ==
    \E r \in Done :
        /\ Cardinality(MatchingRoutes(r.method, r.path)) = 2
        /\ r.via = "route"
        /\ Len(r.calls) = 2
        /\ Last(r.calls).fn = r.handler

\* ------------------------------------------------------------------------
\* C16
\* ------------------------------------------------------------------------

\* The calls of r that went to a middleware.
MiddlewareCallsOf(r) == {k \in 1..Len(r.calls) : r.calls[k].fn \in Middlewares}

\* C16: a request that ends in the not-found handler (no route for its path
\* and method) has had no middleware called: its only call is the not-found
\* handler, with a Context whose Param is empty for every key, and its
\* response is that handler's alone; a middleware is only ever called for a
\* request for which a route was selected.
C16_NotFoundPathSkipsMiddlewares ==
    \A r \in InFlight :
        /\ r.via = "notFound" =>
              /\ MiddlewareCallsOf(r) = {}
              /\ Len(r.calls) = 1
              /\ r.calls[1].fn = notFound
              /\ \A key \in {sId, <<>>} \cup ParamNames(r.path) \cup
                             UNION {ParamNames(rt.pattern) : rt \in RegisteredRoutes} :
                    Param(r.calls[1].params, key) = <<>>
              /\ r.resp = Effect(notFound)
        /\ MiddlewareCallsOf(r) # {} => r.via = "route"

\* POST /users/123 ended in the not-found handler of an App that has
\* middlewares and the route GET /users/:id.
C16_Witness ==
    \E r \in Done :
        /\ r.via = "notFound"
        /\ middlewares # <<>>
        /\ r.method = "POST" /\ r.path = sUsers123
        /\ \E rt \in RegisteredRoutes :
              rt.method = "GET" /\ rt.pattern = sUsersId /\ Matches(rt.pattern, r.path)
        /\ Param(Last(r.calls).params, sId) = <<>>

=============================================================================
